---- MODULE Spec2Model ----
(***************************************************************************)
(* The node/edge connection protocol of cerata (node.cc): MultiOutputNode, *)
(* NormalNode, Literal and Parameter, with edges as shared objects that    *)
(* are registered on their endpoint nodes by AddEdge and deregistered by   *)
(* RemoveEdge; and the node objects themselves: their members, Copy,       *)
(* Port::InvertDirection, Literal::ToString and the boolean singletons.    *)
(***************************************************************************)
EXTENDS Integers, Sequences, FiniteSets, TLC

\* Number of Edge objects that connections make (specification Spec).
MaxEdges == 2

\* Number of Edge objects made by hand (specification SpecEdge).
MaxLoose == 1

\* Number of connections made (specification SpecConnect).
MaxConnects == 3

\* Number of connections made to or from the parameter (specification
\* SpecParam).
MaxParamEdges == 2

\* Number of Copy() calls (specification SpecCopy), and of Edge objects that
\* connections make there.
MaxCopies == 1
MaxCopyEdges == 1

\* Number of connections made (specification SpecDriver).
MaxDriven == 2

\* Largest magnitude of the value of an integer literal (specification
\* SpecLiteral).
MaxInt == 42

\* nullptr / std::nullopt for node references, and the null edge pointer.
None == "none"
NoEdge == 0

\* The null std::shared_ptr<Literal>: a function-local static not yet
\* initialised holds no literal.
NoLiteral == 0

\* The nodes of the graph under construction: a Signal, a Port, a Parameter
\* and a Literal.
Nodes == {"a", "b", "p", "L"}

\* The object that n->Copy() makes, for each node of the graph.
CopyOf(n) ==
  CASE n = "a" -> "a2"
    [] n = "b" -> "b2"
    [] n = "p" -> "p2"
    [] n = "L" -> "L2"

\* Node::NodeID of every node, fixed by the constructor that made it: X::Copy
\* constructs an X.
node_id(n) ==
  CASE n \in {"a", "a2"} -> "SIGNAL"
    [] n \in {"b", "b2"} -> "PORT"
    [] n \in {"p", "p2"} -> "PARAMETER"
    [] n \in {"L", "L2"} -> "LITERAL"

\* Port, Signal and Parameter derive from NormalNode; Literal derives from
\* MultiOutputNode only.
IsNormal(n) == node_id(n) \in {"PORT", "SIGNAL", "PARAMETER"}
NormalNodes == {n \in Nodes : IsNormal(n)}
Literals == {n \in Nodes : node_id(n) = "LITERAL"}

VARIABLES
  edges,      \* the Edge objects made so far: edge i is edges[i] = [src, dst]
  outputs,    \* MultiOutputNode::outputs_ of every node (a deque of edges)
  input,      \* NormalNode::input_ of every NormalNode (NoEdge when null)
  default_value,  \* Parameter::default_value_ of the parameter p
  ret,        \* what the last call returned to its caller
  fields,     \* the data members of every node object
  heap,       \* the literals that Literal::Make made for the singletons
  statics,    \* the function-local statics of bool_true() and bool_false()
  text,       \* the std::string the last ToString() handed back
  lit         \* the literal the last bool_true() / bool_false() handed back

\* What the connection protocol leaves alone.
members == <<default_value, fields, heap, statics, text, lit>>

vars == <<edges, outputs, input, default_value, ret, fields, heap, statics,
          text, lit>>

\* The edge storage the operations work on.
Graph == [edges |-> edges, outputs |-> outputs, input |-> input]

Edges == 1..Len(edges)

\* Contains(list, item) of utils.h: item occurs in the container.
Contains(list, item) == \E i \in 1..Len(list) : list[i] = item

\* The number of entries of list that equal item.
Count(list, item) == Cardinality({i \in 1..Len(list) : list[i] = item})

\* list without its first entry equal to item (deque::erase at the first hit).
RECURSIVE EraseFirst(_, _)
EraseFirst(list, item) ==
  IF list = <<>> THEN <<>>
  ELSE IF Head(list) = item THEN Tail(list)
  ELSE <<Head(list)>> \o EraseFirst(Tail(list), item)

\* Edge::Make(name, dst, src): a new edge object with the given endpoints,
\* registered nowhere.
Edge_Make(G, dst, src) ==
  [G EXCEPT !.edges = Append(@, [src |-> src, dst |-> dst])]

\* AddEdge without the check that this node is the source of the edge.
MultiOutputNode_AddEdge_AnySource(G, this, edge) ==
  IF /\ G.edges[edge].src # None
     /\ ~Contains(G.outputs[this], edge)
  THEN [g |-> [G EXCEPT !.outputs[this] = Append(@, edge)], success |-> TRUE]
  ELSE [g |-> G, success |-> FALSE]

\* AddEdge that keeps one output: a new edge takes the place of the outputs.
MultiOutputNode_AddEdge_SingleOutput(G, this, edge) ==
  IF /\ G.edges[edge].src # None
     /\ G.edges[edge].src = this
     /\ ~Contains(G.outputs[this], edge)
  THEN [g |-> [G EXCEPT !.outputs[this] = <<edge>>], success |-> TRUE]
  ELSE [g |-> G, success |-> FALSE]

\* AddEdge without the check that the edge is not yet among the outputs.
MultiOutputNode_AddEdge_NoContains(G, this, edge) ==
  IF /\ G.edges[edge].src # None
     /\ G.edges[edge].src = this
  THEN [g |-> [G EXCEPT !.outputs[this] = Append(@, edge)], success |-> TRUE]
  ELSE [g |-> G, success |-> FALSE]

\* bool MultiOutputNode::AddEdge(const std::shared_ptr<Edge> &edge)
MultiOutputNode_AddEdge(G, this, edge) ==
  IF /\ G.edges[edge].src # None
     /\ G.edges[edge].src = this
     /\ ~Contains(G.outputs[this], edge)
  THEN [g |-> [G EXCEPT !.outputs[this] = Append(@, edge)], success |-> TRUE]
  ELSE [g |-> G, success |-> FALSE]

\* RemoveEdge that finds the edge among the outputs and leaves it there.
MultiOutputNode_RemoveEdge_NoErase(G, this, edge) ==
  IF /\ G.edges[edge].src # None
     /\ G.edges[edge].src = this
     /\ Contains(G.outputs[this], edge)
  THEN [g |-> G, success |-> TRUE]
  ELSE [g |-> G, success |-> FALSE]

\* RemoveEdge that reports an edge of this source as removed whether or not
\* the scan of the outputs found it.
MultiOutputNode_RemoveEdge_AlwaysFound(G, this, edge) ==
  IF /\ G.edges[edge].src # None
     /\ G.edges[edge].src = this
  THEN [g |-> [G EXCEPT !.outputs[this] = EraseFirst(@, edge)], success |-> TRUE]
  ELSE [g |-> G, success |-> FALSE]

\* bool MultiOutputNode::RemoveEdge(Edge *edge)
MultiOutputNode_RemoveEdge(G, this, edge) ==
  IF /\ G.edges[edge].src # None
     /\ G.edges[edge].src = this
     /\ Contains(G.outputs[this], edge)
  THEN [g |-> [G EXCEPT !.outputs[this] = EraseFirst(@, edge)], success |-> TRUE]
  ELSE [g |-> G, success |-> FALSE]

\* AddEdge that tries the output role only and never takes an input.
NormalNode_AddEdge_OutputOnly(G, this, edge) ==
  MultiOutputNode_AddEdge(G, this, edge)

\* AddEdge that, when it replaces an input, also takes the replaced edge out
\* of the outputs of that edge's source.
NormalNode_AddEdge_Detaches(G, this, edge) ==
  LET out == MultiOutputNode_AddEdge(G, this, edge)
      old == G.input[this]
  IN  IF out.success THEN out
      ELSE IF /\ G.edges[edge].dst # None
              /\ G.edges[edge].dst = this
           THEN [g |-> IF old # NoEdge /\ old # edge /\ G.edges[old].src # None
                       THEN [out.g EXCEPT
                               !.input[this] = edge,
                               !.outputs[G.edges[old].src] = EraseFirst(@, old)]
                       ELSE [out.g EXCEPT !.input[this] = edge],
                 success |-> TRUE]
           ELSE out

\* AddEdge that takes an input only while it holds none.
NormalNode_AddEdge_KeepsInput(G, this, edge) ==
  LET out == MultiOutputNode_AddEdge(G, this, edge)
  IN  IF out.success THEN out
      ELSE IF /\ G.edges[edge].dst # None
              /\ G.edges[edge].dst = this
              /\ G.input[this] = NoEdge
           THEN [g |-> [out.g EXCEPT !.input[this] = edge], success |-> TRUE]
           ELSE out

\* bool NormalNode::AddEdge(const std::shared_ptr<Edge> &edge)
NormalNode_AddEdge(G, this, edge) ==
  LET out == MultiOutputNode_AddEdge(G, this, edge)
  IN  IF out.success THEN out
      ELSE IF /\ G.edges[edge].dst # None
              /\ G.edges[edge].dst = this
           THEN [g |-> [out.g EXCEPT !.input[this] = edge], success |-> TRUE]
           ELSE out

\* RemoveEdge that looks at the input whether or not an output was removed.
NormalNode_RemoveEdge_BothRoles(G, this, edge) ==
  LET out == MultiOutputNode_RemoveEdge(G, this, edge)
  IN  IF /\ G.edges[edge].dst # None
         /\ G.edges[edge].dst = this
         /\ out.g.input[this] = edge
      THEN [g |-> [out.g EXCEPT !.input[this] = NoEdge], success |-> TRUE]
      ELSE out

\* bool NormalNode::RemoveEdge(Edge *edge)
NormalNode_RemoveEdge(G, this, edge) ==
  LET out == MultiOutputNode_RemoveEdge(G, this, edge)
  IN  IF /\ G.edges[edge].dst # None
         /\ ~out.success
         /\ G.edges[edge].dst = this
         /\ out.g.input[this] = edge
      THEN [g |-> [out.g EXCEPT !.input[this] = NoEdge], success |-> TRUE]
      ELSE out

\* The virtual call node->AddEdge(edge): NormalNode overrides MultiOutputNode.
Node_AddEdge(G, n, edge) ==
  IF IsNormal(n) THEN NormalNode_AddEdge(G, n, edge)
  ELSE MultiOutputNode_AddEdge(G, n, edge)

\* The virtual call node->RemoveEdge(edge).
Node_RemoveEdge(G, n, edge) ==
  IF IsNormal(n) THEN NormalNode_RemoveEdge(G, n, edge)
  ELSE MultiOutputNode_RemoveEdge(G, n, edge)

\* std::shared_ptr<Edge> Connect(Node *dst, Node *src): a new edge with both
\* endpoints set, then AddEdge on both nodes.
Connect(G, dst, src) ==
  LET edge == Len(G.edges) + 1
      made == Edge_Make(G, dst, src)
      s == Node_AddEdge(made, src, edge)
      d == Node_AddEdge(s.g, dst, edge)
  IN  [g |-> d.g, edge |-> edge, src_ok |-> s.success, dst_ok |-> d.success]

\* std::optional<Edge *> NormalNode::input() const
NormalNode_input(G, this) ==
  IF G.input[this] # NoEdge THEN G.input[this] ELSE NoEdge

\* sources() without its null check: the held pointer is handed back as is.
NormalNode_sources_Unchecked(G, this) == <<G.input[this]>>

\* std::deque<Edge *> NormalNode::sources() const
NormalNode_sources(G, this) ==
  IF G.input[this] # NoEdge THEN <<G.input[this]>> ELSE <<>>

\* val() with the two tiers swapped: the default wins over the input edge.
Parameter_val_DefaultFirst(G, dflt, this) ==
  IF dflt # None THEN dflt
  ELSE IF NormalNode_input(G, this) # NoEdge
  THEN G.edges[NormalNode_input(G, this)].src
  ELSE None

\* std::optional<Node *> Parameter::val() const
Parameter_val(G, dflt, this) ==
  IF NormalNode_input(G, this) # NoEdge
  THEN G.edges[NormalNode_input(G, this)].src
  ELSE IF dflt # None THEN dflt
  ELSE None

\* What a call hands back: the operation, its boolean result (for a
\* connection: both endpoints accepted the edge, which is then the newest edge
\* object), and whether it threw and so handed back nothing.
Ret(op, ok, threw) == [op |-> op, ok |-> ok, threw |-> threw]

SetGraph(g) ==
  /\ edges' = g.edges
  /\ outputs' = g.outputs
  /\ input' = g.input

\* The nodes constructed so far: the graph's own and the copies made of them.
Alive == DOMAIN fields

\* One decimal digit as text.
Digit(d) ==
  CASE d = 0 -> "0" [] d = 1 -> "1" [] d = 2 -> "2" [] d = 3 -> "3"
    [] d = 4 -> "4" [] d = 5 -> "5" [] d = 6 -> "6" [] d = 7 -> "7"
    [] d = 8 -> "8" [] d = 9 -> "9"

RECURSIVE Digits(_)
Digits(n) == IF n < 10 THEN Digit(n) ELSE Digits(n \div 10) \o Digit(n % 10)

\* std::to_string(int): the decimal text of value, with a sign when negative.
std_to_string(value) ==
  IF value < 0 THEN "-" \o Digits(0 - value) ELSE Digits(value)

\* std::to_string(bool) does not exist: the bool is promoted to int, and
\* std::to_string(int) renders 1 or 0.
std_to_string_bool(value) == std_to_string(IF value THEN 1 ELSE 0)

\* Node::Node(name, id, type): the members of a node object; those of the
\* derived classes hold their initial values until a derived constructor sets
\* them.
Node_ctor(name, id, type) ==
  [name |-> name, id |-> id, type |-> type, dir |-> None,
   default_value |-> None, storage_type |-> None,
   str_val |-> "", int_val |-> 0, bool_val |-> FALSE]

\* Literal::Literal(name, type, std::string value)
Literal_string(name, type, value) ==
  [Node_ctor(name, "LITERAL", type) EXCEPT
     !.storage_type = "STRING", !.str_val = value]

\* Literal::Literal(name, type, int value)
Literal_int(name, type, value) ==
  [Node_ctor(name, "LITERAL", type) EXCEPT
     !.storage_type = "INT", !.int_val = value]

\* Literal::Literal(name, type, bool value)
Literal_bool(name, type, value) ==
  [Node_ctor(name, "LITERAL", type) EXCEPT
     !.storage_type = "BOOL", !.bool_val = value]

\* The constructor Literal::Copy uses: every member is given.
Literal_all(name, type, st, str_val, int_val, bool_val) ==
  [Node_ctor(name, "LITERAL", type) EXCEPT
     !.storage_type = st, !.str_val = str_val, !.int_val = int_val,
     !.bool_val = bool_val]

\* Literal::Make(int value)
Literal_Make_int(value) ==
  Literal_int("int" \o std_to_string(value), "integer", value)

\* Literal::Make(std::string value)
Literal_Make_string(value) == Literal_string("str:" \o value, "string", value)

\* Literal::Make(name, type, bool value)
Literal_Make_bool(name, type, value) == Literal_bool(name, type, value)

\* Port::Port(name, type, dir)
Port_ctor(name, type, dir) == [Node_ctor(name, "PORT", type) EXCEPT !.dir = dir]

\* Parameter::Parameter(name, type, default_value)
Parameter_ctor(name, type, dflt) ==
  [Node_ctor(name, "PARAMETER", type) EXCEPT !.default_value = dflt]

\* Signal::Signal(name, type)
Signal_ctor(name, type) == Node_ctor(name, "SIGNAL", type)

\* A node object as its constructor leaves it: the members given, no output
\* and no input.
New(obj) == [obj |-> obj, outputs |-> <<>>, input |-> NoEdge]

\* Copy that takes the edges of the original along.
Port_Copy_WithEdges(G, F, this) ==
  [obj |-> Port_ctor(F[this].name, F[this].type, F[this].dir),
   outputs |-> G.outputs[this], input |-> G.input[this]]

\* Copy that makes a port of no direction.
Port_Copy_NoDir(G, F, this) ==
  New(Port_ctor(F[this].name, F[this].type, "NONE"))

\* std::shared_ptr<Object> Port::Copy() const
Port_Copy(G, F, this) ==
  New(Port_ctor(F[this].name, F[this].type, F[this].dir))

\* std::shared_ptr<Object> Parameter::Copy() const
Parameter_Copy(G, F, this) ==
  New(Parameter_ctor(F[this].name, F[this].type, F[this].default_value))

\* std::shared_ptr<Object> Signal::Copy() const
Signal_Copy(G, F, this) == New(Signal_ctor(F[this].name, F[this].type))

\* std::shared_ptr<Object> Literal::Copy() const
Literal_Copy(G, F, this) ==
  New(Literal_all(F[this].name, F[this].type, F[this].storage_type,
                  F[this].str_val, F[this].int_val, F[this].bool_val))

\* The virtual call n->Copy().
Node_Copy(G, F, n) ==
  CASE node_id(n) = "PORT" -> Port_Copy(G, F, n)
    [] node_id(n) = "PARAMETER" -> Parameter_Copy(G, F, n)
    [] node_id(n) = "SIGNAL" -> Signal_Copy(G, F, n)
    [] node_id(n) = "LITERAL" -> Literal_Copy(G, F, n)

\* Term::Dir
Dirs == {"IN", "OUT", "NONE"}

\* Invert that leaves every direction as it is.
Term_Invert_Same(dir) == dir

\* Term::Dir Term::Invert(Term::Dir dir)
Term_Invert(dir) ==
  IF dir = "IN" THEN "OUT"
  ELSE IF dir = "OUT" THEN "IN"
  ELSE "NONE"

\* Port &Port::InvertDirection()
Port_InvertDirection(F, this) == [F EXCEPT ![this].dir = Term_Invert(@)]

\* std::string Literal::ToString() const
Literal_ToString(this) ==
  IF this.storage_type = "BOOL" THEN std_to_string_bool(this.bool_val)
  ELSE IF this.storage_type = "STRING" THEN this.str_val
  ELSE std_to_string(this.int_val)

\* bool_true() without the static: a literal is made at every call.
bool_true_Remade(H, S) ==
  [heap |-> Append(H, Literal_Make_bool("bool_true", "boolean", TRUE)),
   statics |-> [S EXCEPT !.bool_true = Len(H) + 1],
   result |-> Len(H) + 1]

\* std::shared_ptr<Literal> bool_true(): the static is initialised by the
\* first call and handed back by every call.
bool_true(H, S) ==
  IF S.bool_true = NoLiteral
  THEN [heap |-> Append(H, Literal_Make_bool("bool_true", "boolean", TRUE)),
        statics |-> [S EXCEPT !.bool_true = Len(H) + 1],
        result |-> Len(H) + 1]
  ELSE [heap |-> H, statics |-> S, result |-> S.bool_true]

\* std::shared_ptr<Literal> bool_false(): its literal is named "bool_true"
\* too.
bool_false(H, S) ==
  IF S.bool_false = NoLiteral
  THEN [heap |-> Append(H, Literal_Make_bool("bool_true", "boolean", FALSE)),
        statics |-> [S EXCEPT !.bool_false = Len(H) + 1],
        result |-> Len(H) + 1]
  ELSE [heap |-> H, statics |-> S, result |-> S.bool_false]

\* The node objects of the graph as their constructors leave them: the signal
\* a, the port b of direction dir, the parameter p of default dflt and the
\* literal L.
Constructed(dir, literal, dflt) ==
  [n \in Nodes |->
     CASE n = "a" -> Signal_ctor("a", "bit")
       [] n = "b" -> Port_ctor("b", "bit", dir)
       [] n = "p" -> Parameter_ctor("p", "integer", dflt)
       [] n = "L" -> literal]

\* No literal made, no static initialised, nothing handed back.
NothingCalled ==
  /\ heap = <<>>
  /\ statics = [bool_true |-> NoLiteral, bool_false |-> NoLiteral]
  /\ text = ""
  /\ lit = NoLiteral

\* Nothing has been connected yet; the parameter p was made with the default
\* literal L.
Init ==
  /\ edges = <<>>
  /\ outputs = [n \in Nodes |-> <<>>]
  /\ input = [n \in NormalNodes |-> NoEdge]
  /\ default_value = "L"
  /\ ret = Ret("init", FALSE, FALSE)
  /\ fields = Constructed("IN", Literal_Make_int(42), default_value)
  /\ NothingCalled

\* As Init, with the parameter p made with or without a default literal.
InitParam ==
  /\ edges = <<>>
  /\ outputs = [n \in Nodes |-> <<>>]
  /\ input = [n \in NormalNodes |-> NoEdge]
  /\ default_value \in {None, "L"}
  /\ ret = Ret("init", FALSE, FALSE)
  /\ fields = Constructed("IN", Literal_Make_int(42), default_value)
  /\ NothingCalled

\* A caller makes an edge object without registering it anywhere.
DoEdgeMake(dst, src) ==
  /\ SetGraph(Edge_Make(Graph, dst, src))
  /\ ret' = Ret("Edge::Make", TRUE, FALSE)
  /\ UNCHANGED members

\* n->AddEdge(edge)
DoAddEdge(n, edge) ==
  LET r == Node_AddEdge(Graph, n, edge)
  IN  /\ SetGraph(r.g)
      /\ ret' = Ret("AddEdge", r.success, FALSE)
      /\ UNCHANGED members

\* n->RemoveEdge(edge)
DoRemoveEdge(n, edge) ==
  LET r == Node_RemoveEdge(Graph, n, edge)
  IN  /\ SetGraph(r.g)
      /\ ret' = Ret("RemoveEdge", r.success, FALSE)
      /\ UNCHANGED members

\* A call that hands back the edge made by Connect(dst, src).
Connecting(op, dst, src) ==
  LET r == Connect(Graph, dst, src)
  IN  /\ SetGraph(r.g)
      /\ ret' = Ret(op, r.src_ok /\ r.dst_ok, FALSE)
      /\ UNCHANGED members

\* Connect(dst, src)
DoConnect(dst, src) == Connecting("Connect", dst, src)

\* std::shared_ptr<Edge> MultiOutputNode::AddSink(Node *sink)
MultiOutputNode_AddSink(this, sink) == Connecting("AddSink", sink, this)

\* std::shared_ptr<Edge> NormalNode::AddSource(Node *source)
NormalNode_AddSource(this, source) == Connecting("AddSource", this, source)

\* Literal::AddSource left as the inherited sugar for Connect(this, source).
Literal_AddSource_Connects(this, source) == Connecting("AddSource", this, source)

\* std::shared_ptr<Edge> Literal::AddSource(Node *source): throws, hands back
\* nothing and touches nothing.
Literal_AddSource(this, source) ==
  /\ ret' = Ret("AddSource", FALSE, TRUE)
  /\ UNCHANGED <<edges, outputs, input>>
  /\ UNCHANGED members

\* The virtual call n->AddSource(source).
DoAddSource(n, source) ==
  IF IsNormal(n) THEN NormalNode_AddSource(n, source)
  ELSE Literal_AddSource(n, source)

\* n->AddSink(sink)
DoAddSink(n, sink) == MultiOutputNode_AddSink(n, sink)

\* Room for one more edge object.
CanMake(bound) == Len(edges) < bound

\* Graph construction by a builder: connections, and add_edge / remove_edge
\* on the edges the connections made.
Next ==
  \/ \E dst \in Nodes, src \in Nodes : CanMake(MaxEdges) /\ DoConnect(dst, src)
  \/ \E n \in Nodes, edge \in Edges : DoAddEdge(n, edge)
  \/ \E n \in Nodes, edge \in Edges : DoRemoveEdge(n, edge)

Spec == Init /\ [][Next]_vars

\* The protocol on edge objects made by hand, whose endpoints may be unset.
NextEdge ==
  \/ \E dst \in Nodes \cup {None}, src \in Nodes \cup {None} :
        CanMake(MaxLoose) /\ DoEdgeMake(dst, src)
  \/ \E n \in Nodes, edge \in Edges : DoAddEdge(n, edge)
  \/ \E n \in Nodes, edge \in Edges : DoRemoveEdge(n, edge)

SpecEdge == Init /\ [][NextEdge]_vars

\* Construction by connections alone, in their three spellings: no add_edge
\* or remove_edge by hand.
NextConnect ==
  \/ \E dst \in Nodes, src \in Nodes : CanMake(MaxConnects) /\ DoConnect(dst, src)
  \/ \E n \in NormalNodes, source \in Nodes :
        CanMake(MaxConnects) /\ DoAddSource(n, source)
  \/ \E n \in Literals, source \in Nodes : DoAddSource(n, source)
  \/ \E n \in Nodes, sink \in Nodes : CanMake(MaxConnects) /\ DoAddSink(n, sink)

SpecConnect == Init /\ [][NextConnect]_vars

\* The parameter p, made with or without a default, as an endpoint of every
\* connection: it is driven, it drives, and the edges are added and removed
\* by hand on any node.
NextParam ==
  \/ \E src \in Nodes : CanMake(MaxParamEdges) /\ DoConnect("p", src)
  \/ \E dst \in Nodes : CanMake(MaxParamEdges) /\ DoConnect(dst, "p")
  \/ \E n \in Nodes, edge \in Edges : DoAddEdge(n, edge)
  \/ \E n \in Nodes, edge \in Edges : DoRemoveEdge(n, edge)

SpecParam == InitParam /\ [][NextParam]_vars

\* Construction by connections in their three spellings, and remove_edge by
\* hand on the edges they made.
NextDriver ==
  \/ \E dst \in Nodes, src \in Nodes : CanMake(MaxDriven) /\ DoConnect(dst, src)
  \/ \E n \in NormalNodes, source \in Nodes :
        CanMake(MaxDriven) /\ DoAddSource(n, source)
  \/ \E n \in Nodes, sink \in Nodes : CanMake(MaxDriven) /\ DoAddSink(n, sink)
  \/ \E n \in Nodes, edge \in Edges : DoRemoveEdge(n, edge)

SpecDriver == Init /\ [][NextDriver]_vars

\* The graphs the copies are made in, as <<direction of the port b, literal
\* L, default of the parameter p>>: a port of every direction, a literal of
\* every storage kind, a parameter with and without a default literal.
Variants ==
  {<<"IN", Literal_Make_int(42), "L">>,
   <<"OUT", Literal_Make_string("foo"), None>>,
   <<"NONE", Literal_Make_bool("flag", "boolean", TRUE), "L">>}

\* As Init, with the nodes made as one of the variants.
InitCopy ==
  /\ edges = <<>>
  /\ outputs = [n \in Nodes |-> <<>>]
  /\ input = [n \in NormalNodes |-> NoEdge]
  /\ \E v \in Variants :
        /\ default_value = v[3]
        /\ fields = Constructed(v[1], v[2], v[3])
  /\ ret = Ret("init", FALSE, FALSE)
  /\ NothingCalled

\* n->Copy(): a new node object is constructed from the members of n.
DoCopy(n) ==
  LET c == CopyOf(n)
      made == Node_Copy(Graph, fields, n)
  IN  /\ c \notin Alive
      /\ fields' = (c :> made.obj) @@ fields
      /\ outputs' = (c :> made.outputs) @@ outputs
      /\ input' = IF IsNormal(c) THEN (c :> made.input) @@ input ELSE input
      /\ ret' = Ret("Copy", TRUE, FALSE)
      /\ UNCHANGED <<edges, default_value, heap, statics, text, lit>>

\* n->InvertDirection() on a port n.
DoInvertDirection(n) ==
  /\ fields' = Port_InvertDirection(fields, n)
  /\ ret' = Ret("InvertDirection", TRUE, FALSE)
  /\ UNCHANGED <<edges, outputs, input, default_value, heap, statics, text, lit>>

\* ToString() on the literal object obj.
DoToString(obj) ==
  /\ text' = Literal_ToString(obj)
  /\ ret' = Ret("ToString", TRUE, FALSE)
  /\ UNCHANGED <<edges, outputs, input, default_value, fields, heap, statics, lit>>

\* A call of bool_true().
Do_bool_true ==
  LET r == bool_true(heap, statics)
  IN  /\ heap' = r.heap
      /\ statics' = r.statics
      /\ lit' = r.result
      /\ ret' = Ret("bool_true", TRUE, FALSE)
      /\ UNCHANGED <<edges, outputs, input, default_value, fields, text>>

\* A call of bool_false().
Do_bool_false ==
  LET r == bool_false(heap, statics)
  IN  /\ heap' = r.heap
      /\ statics' = r.statics
      /\ lit' = r.result
      /\ ret' = Ret("bool_false", TRUE, FALSE)
      /\ UNCHANGED <<edges, outputs, input, default_value, fields, text>>

\* Room for one more copy.
CanCopy == Cardinality(Alive \ Nodes) < MaxCopies

\* n is a copy, or the original of a copy made.
Paired(n) == IF n \in Nodes THEN CopyOf(n) \in Alive ELSE TRUE

\* Nodes are copied and ports inverted; the nodes and their copies are
\* connected to and from the signal a, and a copy and its original add and
\* remove the edges by hand.
NextCopy ==
  \/ \E n \in Nodes : CanCopy /\ DoCopy(n)
  \/ \E n \in Alive : node_id(n) = "PORT" /\ DoInvertDirection(n)
  \/ \E n \in Alive : CanMake(MaxCopyEdges) /\ DoConnect(n, "a")
  \/ \E n \in Alive : CanMake(MaxCopyEdges) /\ DoConnect("a", n)
  \/ \E n \in Alive, edge \in Edges : Paired(n) /\ DoAddEdge(n, edge)
  \/ \E n \in Alive, edge \in Edges : Paired(n) /\ DoRemoveEdge(n, edge)

SpecCopy == InitCopy /\ [][NextCopy]_vars

\* The literals that Literal::Make makes: integers, strings and booleans.
MadeLiterals ==
  {Literal_Make_int(i) : i \in (0 - MaxInt)..MaxInt}
    \cup {Literal_Make_string(str) : str \in {"foo", "", "42"}}
    \cup {Literal_Make_bool("flag", "boolean", b) : b \in BOOLEAN}

\* As Init, with the literal L made of any value of any storage kind.
InitLiteral ==
  /\ edges = <<>>
  /\ outputs = [n \in Nodes |-> <<>>]
  /\ input = [n \in NormalNodes |-> NoEdge]
  /\ default_value = "L"
  /\ ret = Ret("init", FALSE, FALSE)
  /\ \E literal \in MadeLiterals :
        fields = Constructed("IN", literal, default_value)
  /\ NothingCalled

\* The literal L and the boolean singletons are rendered, and the singletons
\* asked for.
NextLiteral ==
  \/ DoToString(fields["L"])
  \/ \E h \in 1..Len(heap) : DoToString(heap[h])
  \/ Do_bool_true
  \/ Do_bool_false

SpecLiteral == InitLiteral /\ [][NextLiteral]_vars

----------------------------------------------------------------------------
\* The step made an edge object from s to d (as every connection of d to s
\* does).
Made(d, s) ==
  /\ Len(edges') = Len(edges) + 1
  /\ edges'[Len(edges')] = [src |-> s, dst |-> d]

\* The step is the call n->RemoveEdge(e) (the operation is looked at first:
\* it is what the call records).
Removing(n, e) == ret'.op = "RemoveEdge" /\ DoRemoveEdge(n, e)

\* The step is the call n->AddEdge(e).
Adding(n, e) == ret'.op = "AddEdge" /\ DoAddEdge(n, e)

\* The step is the call Connect(d, s).
ConnectCall(d, s) == Made(d, s) /\ DoConnect(d, s)

\* The last call was one of the three spellings of a connection.
Connected == ret.op \in {"Connect", "AddSource", "AddSink"} /\ ~ret.threw

\* C1: a NormalNode n that holds an input edge rejects a second inbound edge:
\* a connection onto n from another node s (Connect(n, s), n.AddSource(s),
\* s.AddSink(n)) or n.add_edge(e) with another edge e destined to n fails and
\* leaves n's input as it was.
C1_SecondInputRejected ==
  [][\A n \in NormalNodes :
       (input[n] # NoEdge /\ edges[input[n]].src # n) =>
         /\ \A s \in Nodes \ {n} :
              (DoConnect(n, s) \/ DoAddSource(n, s) \/ DoAddSink(s, n)) =>
                (~ret'.ok /\ input'[n] = input[n])
         /\ \A e \in Edges :
              ( /\ Adding(n, e)
                /\ e # input[n]
                /\ edges[e].dst = n
                /\ edges[e].src # n ) =>
                (~ret'.ok /\ input'[n] = input[n])]_vars

\* C2: a failed connection leaves the graph unchanged: when an endpoint's
\* add_edge returns false during a connection attempt, or add_edge called by
\* hand returns false, every node's output set and input edge are what they
\* were before.
C2_FailedConnectionLeavesGraphUnchanged ==
  [][/\ \A d \in Nodes, s \in Nodes :
          ((DoConnect(d, s) \/ DoAddSink(s, d)) /\ ~ret'.ok) =>
            (outputs' = outputs /\ input' = input)
     /\ \A n \in Nodes, e \in Edges :
          (Adding(n, e) /\ ~ret'.ok) =>
            (outputs' = outputs /\ input' = input)]_vars

\* C3: every NormalNode holds at most one accepted inbound edge: sources()
\* has length 0 or 1, it is non-empty exactly when input() is present, and
\* then it holds that edge.
C3_AtMostOneInput ==
  \A n \in NormalNodes :
    /\ Len(NormalNode_sources(Graph, n)) \in {0, 1}
    /\ (NormalNode_sources(Graph, n) # <<>>) <=> (NormalNode_input(Graph, n) # NoEdge)
    /\ \A i \in 1..Len(NormalNode_sources(Graph, n)) :
         /\ NormalNode_sources(Graph, n)[i] \in Edges
         /\ NormalNode_sources(Graph, n)[i] = NormalNode_input(Graph, n)

\* C3 witness: two edges destined to the same NormalNode have been made and
\* the node holds one of them.
C3_Witness ==
  \E n \in NormalNodes :
    /\ Len(edges) >= 2
    /\ edges[1].dst = n /\ edges[2].dst = n
    /\ NormalNode_sources(Graph, n) = <<2>>

\* C4: AddSource on a Literal never succeeds, in any state and however often
\* it is called: the call throws, hands back no edge and changes no node's
\* edge storage; no edge object is made.
C4_LiteralAddSourceNeverSucceeds ==
  /\ [](ret.threw => (ret.op = "AddSource" /\ ~ret.ok))
  /\ [][\A l \in Literals, s \in Nodes :
          DoAddSource(l, s) =>
            /\ ret'.threw /\ ~ret'.ok
            /\ edges' = edges /\ outputs' = outputs /\ input' = input]_vars

\* C4 witness: AddSource threw on a literal that already drives an edge.
C4_Witness ==
  /\ ret.threw
  /\ ret.op = "AddSource"
  /\ \E l \in Literals : outputs[l] # <<>>

\* C5: a Literal rejects every inbound edge: l.add_edge(e) for an edge e
\* whose destination is the literal l, whatever its source, returns false and
\* e is not registered on l.
C5_LiteralRejectsInboundEdge ==
  [][\A l \in Literals, e \in Edges :
       (Adding(l, e) /\ edges[e].dst = l) =>
         (~ret'.ok /\ outputs'[l] = outputs[l] /\ ~Contains(outputs'[l], e))]_vars

\* The edges made so far whose source is s, in the order they were made.
EdgesFrom(s) ==
  SelectSeq([i \in 1..Len(edges) |-> i], LAMBDA i : edges[i].src = s)

\* C6: fan-out is unbounded. While a graph is built by connections alone, the
\* output set of every node (of any variant) holds exactly the edges made
\* with it as source, each once, in the order they were made; every
\* connection appends its new edge to the source's output set, dropping and
\* replacing nothing, and it succeeds whenever the sink is a NormalNode with
\* no input yet.
C6_FanOutUnbounded ==
  /\ \A s \in Nodes : outputs[s] = EdgesFrom(s)
  /\ [][/\ \A s \in Nodes : outputs'[s] = EdgesFrom(s)'
        /\ \A d \in Nodes, s \in Nodes :
             ( /\ Made(d, s)
               /\ \/ DoConnect(d, s)
                  \/ DoAddSink(s, d)
                  \/ (IsNormal(d) /\ DoAddSource(d, s)) ) =>
               /\ ~Contains(outputs[s], Len(edges) + 1)
               /\ outputs'[s] = Append(outputs[s], Len(edges) + 1)
               /\ (IsNormal(d) /\ input[d] = NoEdge) => ret'.ok]_vars

\* C6 witness: one source drives three distinct sinks after three successful
\* connections, and its output set holds the three edges.
C6_Witness ==
  \E s \in Nodes :
    /\ Connected /\ ret.ok
    /\ outputs[s] = <<1, 2, 3>>
    /\ Cardinality({edges[e].dst : e \in {1, 2, 3}}) = 3
    /\ \A e \in {1, 2, 3} : input[edges[e].dst] = e

\* C7: duplicate-edge suppression. No edge occurs more than once in any
\* node's output set, and add_edge with an edge that is already in the
\* node's output set leaves that output set as it is.
C7_NoDuplicateOutputs ==
  /\ \A n \in Nodes, e \in Edges : Count(outputs[n], e) <= 1
  /\ [][/\ \A n \in Nodes, e \in Edges' : Count(outputs'[n], e) <= 1
        /\ \A n \in Nodes, e \in Edges :
             (Contains(outputs[n], e) /\ Adding(n, e)) =>
               outputs'[n] = outputs[n]]_vars

\* C7 witness: add_edge was refused while a literal's edge sits, once, in the
\* literal's output set (a literal has no other role to give the edge).
C7_Witness ==
  /\ ret.op = "AddEdge" /\ ~ret.ok
  /\ \E l \in Literals :
       /\ \A e \in Edges : edges[e].src = l
       /\ outputs[l] = <<1>>

\* The parameter's value as the two-tier fallback states it, read off the
\* stored fields.
Resolved ==
  IF input["p"] # NoEdge THEN edges[input["p"]].src
  ELSE IF default_value # None THEN default_value
  ELSE None

\* The parameter's default literal, or absent.
Fallback == IF default_value # None THEN default_value ELSE None

\* C8 as stated: val() is the source of the input edge if there is one, else
\* the default literal if configured, else absent; after a connection onto
\* the parameter val() is the new edge's source, and after remove_edge on the
\* parameter returns true for its input edge val() is the default or absent.
C8_ValAfterRemoveIsDefault ==
  /\ Parameter_val(Graph, default_value, "p") = Resolved
  /\ [][/\ Parameter_val(Graph, default_value, "p")' = Resolved'
        /\ \A s \in Nodes :
             ConnectCall("p", s) => Parameter_val(Graph, default_value, "p")' = s
        /\ \A e \in Edges :
             (input["p"] = e /\ Removing("p", e) /\ ret'.ok) =>
               Parameter_val(Graph, default_value, "p")' = Fallback]_vars

\* C8, amended: as above, but val() is the default or absent once remove_edge
\* has cleared the input edge; for an input edge that is also in the
\* parameter's own output set (a self-loop) the first remove_edge drops the
\* output entry only and val() is still the parameter itself.
C8_ValFollowsInput ==
  /\ Parameter_val(Graph, default_value, "p") = Resolved
  /\ [][/\ Parameter_val(Graph, default_value, "p")' = Resolved'
        /\ \A s \in Nodes :
             ConnectCall("p", s) => Parameter_val(Graph, default_value, "p")' = s
        /\ \A e \in Edges :
             (input["p"] = e /\ Removing("p", e)) =>
               /\ ret'.ok
               /\ ~Contains(outputs["p"], e) =>
                    /\ input'["p"] = NoEdge
                    /\ Parameter_val(Graph, default_value, "p")' = Fallback
               /\ Contains(outputs["p"], e) =>
                    /\ input'["p"] = e
                    /\ Parameter_val(Graph, default_value, "p")' = "p"]_vars

\* C8 witness: remove_edge on the parameter has just cleared an input edge
\* driven by another node (every edge made drives the parameter from another
\* node and is still among its source's outputs, so the call that removed
\* something was on the parameter), and val() is back to the default, here
\* absent.
C8_Witness ==
  /\ ret.op = "RemoveEdge" /\ ret.ok
  /\ edges # <<>>
  /\ \A e \in Edges :
       /\ edges[e].src # "p" /\ edges[e].dst = "p"
       /\ Contains(outputs[edges[e].src], e)
  /\ input["p"] = NoEdge
  /\ default_value = None
  /\ Parameter_val(Graph, default_value, "p") = None

\* C9: Connect(b, a) for a NormalNode b without input and another node a
\* succeeds with both endpoints accepting the new edge; afterwards
\* b.sources() is exactly the new edge and a's output set is what it was plus
\* the new edge at the end; no other node's edge storage changes. (Only a
\* step that makes an edge can be a Connect.)
C9_ConnectRegistersBothEnds ==
  [][Len(edges') > Len(edges) =>
       \A b \in NormalNodes : \A a \in Nodes \ {b} :
         (input[b] = NoEdge /\ ConnectCall(b, a)) =>
           /\ ret'.ok
           /\ Connect(Graph, b, a).src_ok /\ Connect(Graph, b, a).dst_ok
           /\ NormalNode_sources(Graph, b)' = <<Len(edges) + 1>>
           /\ outputs'[a] = Append(outputs[a], Len(edges) + 1)
           /\ outputs[a] = <<>> => outputs'[a] = <<Len(edges) + 1>>
           /\ \A n \in Nodes \ {a} : outputs'[n] = outputs[n]
           /\ \A n \in NormalNodes \ {b} : input'[n] = input[n]]_vars

\* C9 witness: the signal a drives the port b through the one edge made, by
\* a Connect that succeeded.
C9_Witness ==
  /\ ret.op = "Connect" /\ ret.ok
  /\ edges = <<[src |-> "a", dst |-> "b"]>>
  /\ NormalNode_sources(Graph, "b") = <<1>>
  /\ outputs["a"] = <<1>>

\* e is registered on n: in n's output set or held as n's input.
Registered(n, e) ==
  \/ Contains(outputs[n], e)
  \/ (IsNormal(n) /\ input[n] = e)

\* C10 as stated: remove_edge(e) on n returns true exactly when e was
\* registered on n; after true e is registered on n in no role; after false
\* n's output set and input are unchanged.
C10_RemovedInEveryRole ==
  [][\A n \in Nodes, e \in Edges :
       Removing(n, e) =>
         /\ ret'.ok <=> Registered(n, e)
         /\ ret'.ok => ~Registered(n, e)'
         /\ ~ret'.ok => (outputs' = outputs /\ input' = input)]_vars

\* C10, amended: remove_edge(e) on n returns true exactly when e was
\* registered on n; a true result removes one registration, the output entry
\* if e was in n's output set and else the input, so that afterwards e is
\* registered on n only if it was both (a self-loop), and then as n's input;
\* after false nothing has changed; other nodes never change.
C10_RemoveOneRegistration ==
  [][\A n \in Nodes, e \in Edges :
       Removing(n, e) =>
         /\ ret'.ok <=> Registered(n, e)
         /\ Contains(outputs[n], e) =>
              /\ ~Contains(outputs'[n], e)
              /\ Len(outputs'[n]) = Len(outputs[n]) - 1
              /\ input' = input
         /\ (~Contains(outputs[n], e) /\ Registered(n, e)) =>
              /\ input'[n] = NoEdge
              /\ outputs' = outputs
         /\ Registered(n, e)' <=>
              (Contains(outputs[n], e) /\ IsNormal(n) /\ input[n] = e)
         /\ ~ret'.ok => (outputs' = outputs /\ input' = input)
         /\ \A m \in Nodes \ {n} : outputs'[m] = outputs[m]
         /\ \A m \in NormalNodes \ {n} : input'[m] = input[m]]_vars

\* C10 witness: remove_edge returned true on a self-loop and the edge, gone
\* from the node's output set, is still the node's input.
C10_Witness ==
  /\ ret.op = "RemoveEdge" /\ ret.ok
  /\ \E n \in NormalNodes :
       /\ edges = <<[src |-> n, dst |-> n]>>
       /\ outputs[n] = <<>>
       /\ input[n] = 1

\* The step is the call n->Copy().
Copying(n) == ret'.op = "Copy" /\ DoCopy(n)

\* C11: copy() never carries over edges: whatever the inputs and outputs of a
\* node n, the node that n.copy() returns has no output and, when it is a
\* NormalNode, empty sources(); and the call leaves the edge objects and the
\* edge storage of n and of every other node as they were.
C11_CopyHasNoEdges ==
  [][\A n \in Nodes :
       Copying(n) =>
         LET c == CopyOf(n)
         IN  /\ c \notin Alive /\ c \in Alive'
             /\ outputs'[c] = <<>>
             /\ IsNormal(c) => NormalNode_sources(Graph, c)' = <<>>
             /\ edges' = edges
             /\ \A m \in Alive : outputs'[m] = outputs[m]
             /\ \A m \in Alive : IsNormal(m) => input'[m] = input[m]]_vars

\* The signal a, which drives itself and so holds an output and an input, was
\* copied: a still holds both and its copy holds neither.
C11_Witness ==
  /\ ret.op = "Copy"
  /\ "a2" \in Alive
  /\ outputs["a"] = <<1>> /\ NormalNode_sources(Graph, "a") = <<1>>
  /\ outputs["a2"] = <<>> /\ NormalNode_sources(Graph, "a2") = <<>>

\* The step leaves the members and the edge storage of the node m alone.
Untouched(m) ==
  /\ fields'[m] = fields[m]
  /\ outputs'[m] = outputs[m]
  /\ IsNormal(m) => input'[m] = input[m]

\* The step is a call of invert_direction, add_edge or remove_edge on n.
CallOn(n) ==
  \/ ret'.op = "InvertDirection" /\ node_id(n) = "PORT" /\ DoInvertDirection(n)
  \/ \E e \in Edges : Adding(n, e) \/ Removing(n, e)

\* C12: copy() yields a new node, independent of the original, with the same
\* name, kind and type reference and the same variant attributes (direction
\* of a Port, default literal of a Parameter, value and storage kind of a
\* Literal); a later invert_direction, add_edge or remove_edge on the copy
\* leaves the members and edges of the original as they were, and the same
\* calls on the original leave the copy as it was.
C12_CopyIsIndependentTwin ==
  [][\A n \in Nodes :
       LET c == CopyOf(n)
       IN  /\ Copying(n) =>
                /\ c \notin Alive /\ c \in Alive' /\ c # n
                /\ fields'[c] = fields[n]
                /\ fields'[c].id = node_id(n) /\ node_id(c) = node_id(n)
                /\ \A m \in Alive : fields'[m] = fields[m]
           /\ (c \in Alive /\ CallOn(c)) => Untouched(n)
           /\ (c \in Alive /\ CallOn(n)) => Untouched(c)]_vars

\* The port b was copied; its copy has since been connected to the signal a
\* and inverted: the copy holds an input and the other direction, the
\* original holds no edge and the direction it was made with, and both still
\* have the same name and type.
C12_Witness ==
  /\ ret.op = "InvertDirection"
  /\ "b2" \in Alive
  /\ fields["b2"].name = fields["b"].name
  /\ fields["b2"].type = fields["b"].type
  /\ fields["b"].dir = "IN" /\ fields["b2"].dir = "OUT"
  /\ input["b2"] = 1 /\ input["b"] = NoEdge

\* The step is the call n->InvertDirection() on the port n.
Inverting(n) == ret'.op = "InvertDirection" /\ DoInvertDirection(n)

\* C13: direction inversion is an involution on {in, out} and fixes none:
\* Invert(in) = out, Invert(out) = in, Invert(none) = none, and
\* Invert(Invert(d)) = d; invert_direction() on a port sets its direction to
\* Invert of it and changes nothing else (name, type, edges), and a second
\* call right after restores the port as it was.
C13_InvertIsInvolution ==
  /\ Term_Invert("IN") = "OUT"
  /\ Term_Invert("OUT") = "IN"
  /\ Term_Invert("NONE") = "NONE"
  /\ \A d \in {"IN", "OUT"} : Term_Invert(Term_Invert(d)) = d
  /\ [][\A n \in Alive :
          (node_id(n) = "PORT" /\ Inverting(n)) =>
            /\ fields'[n] = [fields[n] EXCEPT !.dir = Term_Invert(fields[n].dir)]
            /\ \A m \in Alive \ {n} : fields'[m] = fields[m]
            /\ edges' = edges /\ outputs' = outputs /\ input' = input
            /\ Port_InvertDirection(fields', n) = fields]_vars

\* The port b, made with direction in and driven by the signal a, has been
\* inverted (no other port exists) and its direction is in again: it was
\* inverted twice, and it still holds its input.
C13_Witness ==
  /\ ret.op = "InvertDirection"
  /\ Alive = Nodes
  /\ fields["L"].storage_type = "INT"
  /\ fields["b"] = Port_ctor("b", "bit", "IN")
  /\ input["b"] = 1 /\ edges[1].src = "a"

\* The text of a boolean.
BoolText(b) == IF b THEN "true" ELSE "false"

\* The step is the call ToString() on the literal object obj.
Rendering(obj) == ret'.op = "ToString" /\ DoToString(obj)

\* C14: the rendering of a literal is selected by its storage kind: a boolean
\* literal renders as the text of its boolean value (true as "true", false
\* as "false"), an integer literal as its decimal text (42 as "42"), and a
\* string literal verbatim ("foo" as "foo").
C14_RenderingByStorageKind ==
  [][\A obj \in {fields["L"]} \cup {heap[h] : h \in 1..Len(heap)} :
       Rendering(obj) =>
         /\ obj.storage_type = "BOOL" => text' = BoolText(obj.bool_val)
         /\ obj.storage_type = "INT" =>
               /\ text' = std_to_string(obj.int_val)
               /\ obj.int_val = 42 => text' = "42"
         /\ obj.storage_type = "STRING" => text' = obj.str_val]_vars

\* The literal that the static of a singleton holds, once initialised, is a
\* boolean literal of the given value.
HoldsBool(h, value) ==
  h # NoLiteral =>
    /\ h \in 1..Len(heap)
    /\ heap[h].id = "LITERAL"
    /\ heap[h].storage_type = "BOOL"
    /\ heap[h].bool_val = value

\* The two singletons are boolean literals of their values and are two
\* objects; no other literal was made for them.
Singletons ==
  /\ HoldsBool(statics.bool_true, TRUE)
  /\ HoldsBool(statics.bool_false, FALSE)
  /\ statics.bool_true # NoLiteral => statics.bool_true # statics.bool_false
  /\ Len(heap) = Cardinality({statics.bool_true, statics.bool_false} \ {NoLiteral})

\* A step keeps the literals made, and a call for a singleton hands back what
\* its static holds: the literal the first call made.
SingletonCall ==
  /\ \A h \in 1..Len(heap) : h \in 1..Len(heap') /\ heap'[h] = heap[h]
  /\ (ret'.op = "bool_true" /\ Do_bool_true) =>
        /\ lit' # NoLiteral /\ lit' = statics'.bool_true
        /\ statics.bool_true # NoLiteral => lit' = statics.bool_true
        /\ statics'.bool_false = statics.bool_false
  /\ (ret'.op = "bool_false" /\ Do_bool_false) =>
        /\ lit' # NoLiteral /\ lit' = statics'.bool_false
        /\ statics.bool_false # NoLiteral => lit' = statics.bool_false
        /\ statics'.bool_true = statics.bool_true

\* C15: the boolean singletons are created once and shared: every call of
\* bool_true() returns the same literal node, of boolean storage and value
\* true, every call of bool_false() returns the same literal node, of boolean
\* storage and value false, and the two nodes are distinct.
C15_SingletonsMadeOnce ==
  /\ Singletons
  /\ [][Singletons' /\ SingletonCall]_vars

\* bool_true() was called, then bool_false(), then bool_true() again: the
\* last call handed back the literal the first call made, and two literals
\* exist.
C15_Witness ==
  /\ ret.op = "bool_true"
  /\ statics = [bool_true |-> 1, bool_false |-> 2]
  /\ lit = 1
  /\ Len(heap) = 2
  /\ heap[1].bool_val /\ ~heap[2].bool_val

\* The edge e is one that n.add_edge(e) takes as a new output.
NewOutput(n, e) == edges[e].src = n /\ ~Contains(outputs[n], e)

\* C16: NormalNode.add_edge tries the output role first and the input role
\* only when that fails: an edge that is a new output of the node is appended
\* to its outputs and the input is left alone; any other edge destined to the
\* node becomes its input, whatever input it held before; and the call
\* returns false only for an edge that is neither.
C16_OutputFirstThenInput ==
  [][\A n \in NormalNodes, e \in Edges :
       Adding(n, e) =>
         /\ NewOutput(n, e) =>
               /\ ret'.ok
               /\ outputs'[n] = Append(outputs[n], e)
               /\ input'[n] = input[n]
         /\ (~NewOutput(n, e) /\ edges[e].dst = n) =>
               /\ ret'.ok
               /\ input'[n] = e
               /\ outputs'[n] = outputs[n]
         /\ ~ret'.ok <=> (~NewOutput(n, e) /\ edges[e].dst # n)
         /\ ~ret'.ok => (outputs'[n] = outputs[n] /\ input'[n] = input[n])]_vars

\* Two edges are destined to the parameter p, both still among the outputs of
\* their sources; the second connection made edge 2 the input of p, and an
\* add_edge by hand has put edge 1 in its place.
C16_Witness ==
  /\ ret.op = "AddEdge" /\ ret.ok
  /\ Len(edges) = 2
  /\ \A e \in Edges : /\ edges[e].dst = "p" /\ edges[e].src # "p"
                       /\ Contains(outputs[edges[e].src], e)
  /\ input["p"] = 1

\* The edge e is among the outputs of its source but is not the input of its
\* destination, a NormalNode.
Orphaned(G, e) ==
  /\ Contains(G.outputs[G.edges[e].src], e)
  /\ IsNormal(G.edges[e].dst)
  /\ G.input[G.edges[e].dst] # e

\* add_edge and remove_edge on n leave the edge objects and the storage of
\* every other node as they were.
OthersUntouched ==
  ret'.op \in {"AddEdge", "RemoveEdge"} =>
    \A n \in Nodes, e \in Edges :
      (Adding(n, e) \/ Removing(n, e)) =>
        /\ edges' = edges
        /\ \A m \in Nodes \ {n} : outputs'[m] = outputs[m]
        /\ \A m \in NormalNodes \ {n} : input'[m] = input[m]

\* An input that a step replaces by another edge stays among the outputs of
\* its source, orphaned.
ReplacedInputStaysListed ==
  \A n \in NormalNodes :
    (input[n] # NoEdge /\ input'[n] # NoEdge /\ input'[n] # input[n]) =>
      LET e1 == input[n]
      IN  Contains(outputs[edges[e1].src], e1) =>
            /\ Contains(outputs'[edges[e1].src], e1)
            /\ Orphaned(Graph', e1)

\* C17: add_edge and remove_edge on a node n change the storage of n only:
\* the edge objects and the outputs and input of every other node stay as
\* they were; and when the input e1 of a NormalNode is replaced by another
\* edge, e1 stays among the outputs of its source, which leaves e1 an output
\* of its source that is not the input of its destination.
C17_OnlyOwnStorageChanges ==
  [][OthersUntouched /\ ReplacedInputStaysListed]_vars

\* The signal a and the port b were connected to the parameter p in turn:
\* the second connection replaced the input of p, and edge 1 is still an
\* output of a but no longer the input of p.
C17_Witness ==
  /\ ret.op = "Connect" /\ ret.ok
  /\ edges = <<[src |-> "a", dst |-> "p"], [src |-> "b", dst |-> "p"]>>
  /\ input["p"] = 2
  /\ outputs["a"] = <<1>>
  /\ Orphaned(Graph, 1)

\* Every stored edge is stored on an endpoint of its own: an output of a
\* node has the node as its source, the input of a NormalNode has the node as
\* its destination.
StoredOnEndpoints ==
  /\ \A n \in Nodes : \A i \in 1..Len(outputs[n]) :
        outputs[n][i] \in Edges /\ edges[outputs[n][i]].src = n
  /\ \A n \in NormalNodes :
        input[n] # NoEdge => (input[n] \in Edges /\ edges[input[n]].dst = n)

\* add_edge on a node that is not an endpoint of the edge (an edge without
\* source and destination has no endpoint) fails and stores nothing.
StrangerRejected ==
  \A n \in Nodes, e \in Edges :
    (edges[e].src # n /\ edges[e].dst # n /\ Adding(n, e)) =>
      (~ret'.ok /\ outputs' = outputs /\ input' = input)

\* C18: every edge among the outputs of a node has that node as its source,
\* and the input held by a NormalNode has that node as its destination; an
\* edge with no source and no destination, or whose endpoints are both other
\* nodes, is never stored by add_edge.
C18_StoredOnEndpoints ==
  /\ StoredOnEndpoints
  /\ [][StoredOnEndpoints' /\ StrangerRejected]_vars

\* An edge from the signal a to the port b was made by hand and added on
\* both: it is an output of a and the input of b; the last add_edge, by a
\* node that cannot take it, failed.
C18_Witness ==
  /\ ret.op = "AddEdge" /\ ~ret.ok
  /\ edges = <<[src |-> "a", dst |-> "b"]>>
  /\ outputs["a"] = <<1>>
  /\ input["b"] = 1

\* The edge e starts and ends at the node n.
SelfLoop(n, e) == edges[e].src = n /\ edges[e].dst = n

\* C19: for an edge whose source and destination are the same NormalNode n,
\* the first n.add_edge registers it as an output only and leaves the input
\* as it was, and a second n.add_edge registers it as the input; the first
\* n.remove_edge takes out the output entry only, and a second one clears
\* the input.
C19_SelfLoopTwoCallsEach ==
  [][\A n \in NormalNodes, e \in Edges :
       SelfLoop(n, e) =>
         /\ (~Contains(outputs[n], e) /\ Adding(n, e)) =>
               /\ ret'.ok
               /\ outputs'[n] = Append(outputs[n], e)
               /\ input'[n] = input[n]
         /\ (Contains(outputs[n], e) /\ Adding(n, e)) =>
               /\ ret'.ok
               /\ outputs'[n] = outputs[n]
               /\ input'[n] = e
         /\ (Contains(outputs[n], e) /\ Removing(n, e)) =>
               /\ ret'.ok
               /\ ~Contains(outputs'[n], e)
               /\ input'[n] = input[n]
         /\ (~Contains(outputs[n], e) /\ input[n] = e /\ Removing(n, e)) =>
               /\ ret'.ok
               /\ outputs'[n] = outputs[n]
               /\ input'[n] = NoEdge]_vars

\* An edge from the signal a to itself was made by hand and added twice on
\* a, and removed once: the output entry is gone and the edge is still the
\* input of a.
C19_Witness ==
  /\ ret.op = "RemoveEdge" /\ ret.ok
  /\ edges = <<[src |-> "a", dst |-> "a"]>>
  /\ outputs["a"] = <<>>
  /\ NormalNode_sources(Graph, "a") = <<1>>

\* The input held by every NormalNode is among the outputs of the source of
\* that edge.
DriverListed(G) ==
  \A n \in NormalNodes :
    G.input[n] # NoEdge =>
      Contains(G.outputs[G.edges[G.input[n]].src], G.input[n])

\* The step is a connection, in any of its three spellings.
ConnectionStep == Len(edges') > Len(edges) /\ Connected'

\* The step is remove_edge, on its source, of the edge that the node d holds
\* as its input.
DriverRemoves(d) ==
  /\ input[d] # NoEdge
  /\ Contains(outputs[edges[input[d]].src], input[d])
  /\ Removing(edges[input[d]].src, input[d])

\* A connection made while every held input is listed by its source leaves
\* every held input listed.
ConnectionKeepsListed ==
  (DriverListed(Graph) /\ ConnectionStep) => DriverListed(Graph')

\* remove_edge of a held input on its source succeeds and leaves the input
\* held but no longer listed.
RemovalOnDriverBreaks ==
  \A d \in NormalNodes :
    DriverRemoves(d) =>
      /\ ret'.ok
      /\ input'[d] = input[d]
      /\ ~DriverListed(Graph')

\* C20: as long as the graph is built by Connect, AddSource and AddSink alone,
\* the input held by any NormalNode is among the outputs of that edge's
\* source: it is so before the first call and every connection keeps it so;
\* a remove_edge of a held input on its source node alone breaks it.
C20_DriverListsHeldInput ==
  /\ DriverListed(Graph)
  /\ [][ConnectionKeepsListed /\ RemovalOnDriverBreaks]_vars

\* The signal a was connected to the port b and the edge then removed on a
\* alone: b still holds the edge as its input and a no longer lists it.
C20_Witness ==
  /\ ret.op = "RemoveEdge" /\ ret.ok
  /\ edges = <<[src |-> "a", dst |-> "b"]>>
  /\ input["b"] = 1
  /\ outputs["a"] = <<>>
  /\ ~DriverListed(Graph)
====
